---- MODULE Spec2Model ----
(***************************************************************************)
(* Model of the Binance market-data layer of MarketPulse                   *)
(* (src/sources/binance.py, src/core/fetch_status.py, src/config/base.py): *)
(* KlineCache, BinanceRestClient, BinanceWebSocketClient, BinanceService.  *)
(*                                                                         *)
(* asyncio is single-threaded and cooperative: every action below is the   *)
(* stretch of code one coroutine runs between two suspension points.       *)
(***************************************************************************)
EXTENDS Integers, Sequences, FiniteSets, TLC

VARIABLES
    now,          \* time.time(), in seconds
    _client,      \* BinanceRestClient._client: "none" | "open" | "closed"
    _cache,       \* KlineCache._cache: cache key -> [data, timestamp]
    _status,      \* FetchStatusManager._status: source -> status record
    call,         \* per API caller: its service call in progress, or its last one
    ret,          \* per API caller: what its last call returned or raised
    pulls,        \* per API caller: PullClient invocations made by its last call
    events,       \* per API caller: fetch-status events emitted by its last call
    upstream,     \* history: per API caller, the body its last call decoded
    _running,     \* BinanceWebSocketClient._running
    _ws,          \* BinanceWebSocketClient._ws: 0 (None) or the task whose connection it is
    _task,        \* BinanceWebSocketClient._task: 0 (None) or a task id
    _prices,      \* BinanceWebSocketClient._prices: symbol -> CryptoPrice
    _tickers,     \* BinanceWebSocketClient._tickers: symbol -> Ticker24h
    task,         \* per asyncio task running _connect(): [pc, conn, cancel]
    life,         \* per lifecycle caller: position inside BinanceService.stop()
    lastRec,      \* history: per symbol, the "c" field of the last record ingested
    retry_count,  \* settings.BINANCE_REST_RETRY_COUNT as loaded from the environment
    fails         \* history: consecutive connection cycles that ended in a failure

pullVars == <<_client, _cache, _status, call, ret, pulls, events, upstream>>
streamVars == <<_running, _ws, _task, _prices, _tickers, task, life, lastRec,
               fails>>
vars == <<now, _client, _cache, _status, call, ret, pulls, events, upstream,
          _running, _ws, _task, _prices, _tickers, task, life, lastRec,
          retry_count, fails>>

----------------------------------------------------------------------------
(* Bounds of the model *)

NumCallers == 2        \* API callers
NumLife == 1           \* concurrent callers of start()/stop()
NumRacers == 2         \* callers of start()/stop() whose calls may overlap
MaxTasks == 2          \* asyncio tasks start() may create in one behaviour
MaxLimit == 2          \* largest limit passed to get_klines
MaxRows == 3           \* most rows an upstream kline response carries
StartTime == 120       \* time.time() when the service is constructed
MaxTime == 155         \* the clock stops advancing here
MaxFails == 2          \* consecutive connection failures counted up to here
MaxRetry == 2          \* largest retry budget the environment configures
CacheMaxTime == 1022   \* where the clock stops in the cache specification

(* Program constants *)

BINANCE_WS_RECONNECT_DELAY == 5
BINANCE_REST_RETRY_COUNT == 2
DEFAULT_TTL == 60

Callers == 1..NumCallers
LifeCallers == 1..NumLife
Racers == 1..NumRacers
Tasks == 1..MaxTasks
Symbols == {"BTCUSDT", "ETHUSDT"}
Intervals == {"1m"}
\* interval strings a caller may pass to get_klines: the five keys of the TTL
\* table and four more of the upstream API
AllIntervals == {"1s", "1m", "5m", "15m", "30m", "1h", "4h", "1d", "1w"}
Limits == 0..MaxLimit

None == << >>
Some(x) == <<x>>

Max(a, b) == IF a >= b THEN a ELSE b
Min(a, b) == IF a <= b THEN a ELSE b

----------------------------------------------------------------------------
(* Conversions *)

NumStrs == {"0", "1", "2"}

\* float(x) succeeds on the numeric strings and raises ValueError otherwise
FloatOk(s) == s \in NumStrs
Float(s) ==
    CASE s = "0" -> 0
      [] s = "1" -> 1
      [] s = "2" -> 2

\* settings.BINANCE_KLINE_CACHE_TTL
BINANCE_KLINE_CACHE_TTL ==
    [i \in {"1m", "15m", "1h", "4h", "1d"} |->
        CASE i = "1m" -> 30
          [] i = "15m" -> 300
          [] i = "1h" -> 900
          [] i = "4h" -> 1800
          [] i = "1d" -> 7200]

\* settings.BINANCE_KLINE_CACHE_TTL.get(interval, 60)
Ttl(interval) ==
    IF interval \in DOMAIN BINANCE_KLINE_CACHE_TTL
    THEN BINANCE_KLINE_CACHE_TTL[interval]
    ELSE DEFAULT_TTL

\* Python's seq[start:] and seq[:stop]: a negative index counts from the end,
\* and -0 is 0
PySliceFrom(seq, start) ==
    LET n == Len(seq)
        s == IF start < 0 THEN Max(n + start, 0) ELSE Min(start, n)
    IN  SubSeq(seq, s + 1, n)

PySliceTo(seq, stop) ==
    LET n == Len(seq)
        e == IF stop < 0 THEN Max(n + stop, 0) ELSE Min(stop, n)
    IN  SubSeq(seq, 1, e)

----------------------------------------------------------------------------
(* Upstream klines.  Candle k of the "1m" series covers                    *)
(* [k*60, k*60 + 59], and likewise for the other intervals; the candle     *)
(* containing `now` is still open.  A raw                                   *)
(* row is the array Binance sends: item[0] open_time, item[1..5] open,     *)
(* high, low, close, volume, item[6] close_time, item[7] quote volume,     *)
(* item[8] trades (TLA+ sequences count from 1).  Times are in seconds.    *)

\* seconds in a candle of the interval
IntervalLen(interval) ==
    CASE interval = "1s" -> 1
      [] interval = "1m" -> 60
      [] interval = "5m" -> 300
      [] interval = "15m" -> 900
      [] interval = "30m" -> 1800
      [] interval = "1h" -> 3600
      [] interval = "4h" -> 14400
      [] interval = "1d" -> 86400
      [] interval = "1w" -> 604800

\* g1 is a finer granularity than g2
Finer(g1, g2) == IntervalLen(g1) < IntervalLen(g2)
OpenTime(k, interval) == k * IntervalLen(interval)
CloseTime(k, interval) == (k + 1) * IntervalLen(interval) - 1
CurrentCandle(t, interval) == t \div IntervalLen(interval)
PriceStr(k) == IF k % 2 = 0 THEN "1" ELSE "2"

RawRow(k, interval) ==
    <<OpenTime(k, interval), PriceStr(k), "2", "1", PriceStr(k + 1), "1",
      CloseTime(k, interval), "2", k>>

\* the rows for candles a..b, oldest first (empty when a > b)
RawRows(a, b, interval) ==
    [j \in 1..Max(b - a + 1, 0) |-> RawRow(a + j - 1, interval)]

\* what upstream may answer at time t: any run of at most MaxRows consecutive
\* candles that have opened by t, so that only the newest row can be open
KlineResponses(t, interval) ==
    LET cur == CurrentCandle(t, interval)
    IN  {RawRows(p[1], p[2], interval) :
            p \in {q \in (0..cur + 1) \X (0..cur) :
                      q[1] <= q[2] + 1 /\ q[2] - q[1] + 1 <= MaxRows}}

\* Kline(...) as built in BinanceRestClient.get_klines
Kline(item) ==
    [open_time |-> item[1],
     open |-> Float(item[2]),
     high |-> Float(item[3]),
     low |-> Float(item[4]),
     close |-> Float(item[5]),
     volume |-> Float(item[6]),
     close_time |-> item[7],
     quote_volume |-> Float(item[8]),
     trades |-> item[9]]

\* mutants of CompletedData: the newest row is never dropped / always dropped
CompletedData_NoDrop(data, limit) == data
CompletedData_AlwaysDrop(data, limit) == PySliceTo(data, -1)

\* data[:-1] if len(data) > limit else data
CompletedData(data, limit) ==
    IF Len(data) > limit THEN PySliceTo(data, -1) ELSE data

\* mutant of KlinesOf: the list is built newest first
KlinesOf_NewestFirst(data, limit) ==
    LET tail == PySliceFrom(CompletedData(data, limit), 0 - limit)
    IN  [j \in 1..Len(tail) |-> Kline(tail[Len(tail) + 1 - j])]

\* the list get_klines builds from the upstream rows
KlinesOf(data, limit) ==
    LET tail == PySliceFrom(CompletedData(data, limit), 0 - limit)
    IN  [j \in 1..Len(tail) |-> Kline(tail[j])]

----------------------------------------------------------------------------
(* KlineCache *)

\* f"{symbol}:{limit}" followed by f"{key}:{interval}"
CacheKey(symbol, limit, interval) == <<symbol, limit, interval>>

\* mutant of CacheHit: an entry never expires
CacheHit_NoExpiry(cache, key, interval, t) == key \in DOMAIN cache

\* KlineCache.get returns the data (not None)
CacheHit(cache, key, interval, t) ==
    /\ key \in DOMAIN cache
    /\ ~(t - cache[key].timestamp > Ttl(interval))

\* KlineCache.get's effect on _cache: an expired entry is deleted
CacheAfterGet(cache, key, interval, t) ==
    IF key \in DOMAIN cache /\ t - cache[key].timestamp > Ttl(interval)
    THEN [k \in DOMAIN cache \ {key} |-> cache[k]]
    ELSE cache

\* KlineCache.set
CacheSet(cache, key, data, t) ==
    [k \in DOMAIN cache \cup {key} |->
        IF k = key THEN [data |-> data, timestamp |-> t] ELSE cache[k]]

----------------------------------------------------------------------------
(* FetchStatusManager (src/core/fetch_status.py).  The display strings      *)
(* started_at / completed_at are left out of the status record.             *)

\* FetchStatusManager.start_fetch
start_fetch(st, source, description) ==
    [s \in DOMAIN st \cup {source} |->
        IF s = source
        THEN [status |-> "fetching", description |-> Some(description),
              error |-> None, elapsed_ms |-> None]
        ELSE st[s]]

\* FetchStatusManager.complete_fetch
complete_fetch(st, source, success, error, elapsed_ms) ==
    LET old == IF source \in DOMAIN st
               THEN st[source]
               ELSE [status |-> "idle", description |-> None,
                     error |-> None, elapsed_ms |-> None]
    IN  [s \in DOMAIN st \cup {source} |->
            IF s = source
            THEN [old EXCEPT !.status = IF success THEN "success" ELSE "error",
                             !.error = error,
                             !.elapsed_ms = elapsed_ms]
            ELSE st[s]]

\* FetchStatusManager.get_status
get_status(st, source) ==
    IF source \notin DOMAIN st
    THEN [status |-> "idle", description |-> None, error |-> None]
    ELSE st[source]

\* mutant of reset: every source is cleared
reset_All(st, source) == << >>

\* FetchStatusManager.reset
reset(st, source) == [s \in DOMAIN st \ {source} |-> st[s]]

\* the manager called directly, as its other users and its tests do
Sources == {"binance", "finnhub"}
Descriptions == {"prices", "news"}
ErrorTexts == {None, Some("timeout")}
ElapsedTimes == {None, Some(100)}

StatusStart(source, description) ==
    /\ _status' = start_fetch(_status, source, description)
    /\ UNCHANGED <<now, retry_count, _client, _cache, call, ret, pulls, events,
                   upstream, streamVars>>

StatusComplete(source, success, error, elapsed_ms) ==
    /\ _status' = complete_fetch(_status, source, success, error, elapsed_ms)
    /\ UNCHANGED <<now, retry_count, _client, _cache, call, ret, pulls, events,
                   upstream, streamVars>>

StatusReset(source) ==
    /\ _status' = reset(_status, source)
    /\ UNCHANGED <<now, retry_count, _client, _cache, call, ret, pulls, events,
                   upstream, streamVars>>

----------------------------------------------------------------------------
(* BinanceRestClient._request and the three calls built on it *)

IdleCall ==
    [op |-> "none", pc |-> "idle", symbol |-> "-", interval |-> "-",
     limit |-> 0, req_limit |-> 0, attempt |-> 0, start_time |-> 0]

\* the call has returned or raised: the caller is idle again
Finished(cl) == [cl EXCEPT !.pc = "idle", !.start_time = 0]

NoRet == [kind |-> "none", val |-> None, tag |-> "-"]
Return(val, tag) == [kind |-> "return", val |-> Some(val), tag |-> tag]
Raise(err) == [kind |-> "raise", val |-> Some(err), tag |-> "-"]

\* BinanceRestClient._get_client
GetClient(cl) == IF cl = "none" \/ cl = "closed" THEN "open" ELSE cl

\* the source_desc each call passes to _request
SourceDesc(op, symbol, interval) == <<op, symbol, interval>>

\* _request up to its first await: client, start_fetch, first attempt sent
RequestStart(c, op, symbol, interval, limit, req_limit) ==
    /\ _client' = GetClient(_client)
    /\ _status' = start_fetch(_status, "binance",
                              SourceDesc(op, symbol, interval))
    /\ call' = [call EXCEPT ![c] =
                   [op |-> op, pc |-> "http", symbol |-> symbol,
                    interval |-> interval, limit |-> limit,
                    req_limit |-> req_limit, attempt |-> 0, start_time |-> now]]
    /\ events' = [events EXCEPT ![c] = <<"start_fetch">>]
    /\ pulls' = [pulls EXCEPT ![c] = 1]
    /\ ret' = [ret EXCEPT ![c] = NoRet]
    /\ upstream' = [upstream EXCEPT ![c] = None]

CryptoPrice(symbol, price, t) ==
    [symbol |-> symbol, price |-> price, timestamp |-> t]

Ticker24h(symbol, p, pct, c, h, l, v, q) ==
    [symbol |-> symbol, price_change |-> p, price_change_percent |-> pct,
     last_price |-> c, high_price |-> h, low_price |-> l,
     volume |-> v, quote_volume |-> q]

\* the JSON bodies upstream may answer a request with
Bodies(cl, t) ==
    CASE cl.op = "get_price" ->
            {[symbol |-> cl.symbol, price |-> p] : p \in {"1", "2"}}
      [] cl.op = "get_24h_ticker" ->
            {[symbol |-> cl.symbol, priceChange |-> "1",
              priceChangePercent |-> "1", lastPrice |-> p, highPrice |-> "2",
              lowPrice |-> "1", volume |-> "1", quoteVolume |-> "2"] :
                p \in {"1", "2"}}
      [] cl.op = "get_klines" -> KlineResponses(t, cl.interval)
      [] OTHER -> {}

\* what the caller of _request makes of the decoded body
Converted(cl, body, t) ==
    CASE cl.op = "get_price" ->
            Return(CryptoPrice(body.symbol, Float(body.price), t), "rest")
      [] cl.op = "get_24h_ticker" ->
            Return(Ticker24h(body.symbol, Float(body.priceChange),
                             Float(body.priceChangePercent),
                             Float(body.lastPrice), Float(body.highPrice),
                             Float(body.lowPrice), Float(body.volume),
                             Float(body.quoteVolume)), "rest")
      [] cl.op = "get_klines" -> Return(KlinesOf(body, cl.limit), "-")

\* mutant of HttpOk: the price a get_price call pulled is stored in the
\* stream client's table
HttpOk_StoresQuote(c, body) ==
    /\ call[c].pc = "http"
    /\ body \in Bodies(call[c], now)
    /\ _status' = complete_fetch(_status, "binance", TRUE, None,
                                 Some((now - call[c].start_time) * 1000))
    /\ events' = [events EXCEPT ![c] = Append(@, "complete_ok")]
    /\ ret' = [ret EXCEPT ![c] = Converted(call[c], body, now)]
    /\ _cache' = IF call[c].op = "get_klines"
                 THEN CacheSet(_cache,
                               CacheKey(call[c].symbol, call[c].limit,
                                        call[c].interval),
                               KlinesOf(body, call[c].limit), now)
                 ELSE _cache
    /\ upstream' = [upstream EXCEPT ![c] = Some(body)]
    /\ call' = [call EXCEPT ![c] = Finished(call[c])]
    /\ _prices' = IF call[c].op = "get_price"
                  THEN [x \in DOMAIN _prices \cup {call[c].symbol} |->
                          IF x = call[c].symbol
                          THEN CryptoPrice(x, Float(body.price), now)
                          ELSE _prices[x]]
                  ELSE _prices
    /\ UNCHANGED <<now, retry_count, _client, pulls, _running, _ws, _task,
                   _tickers, task, life, lastRec, fails>>

\* an attempt succeeds: complete_fetch(success), response.json(), conversion,
\* and for klines the cache fill
HttpOk(c, body) ==
    /\ call[c].pc = "http"
    /\ body \in Bodies(call[c], now)
    /\ _status' = complete_fetch(_status, "binance", TRUE, None,
                                 Some((now - call[c].start_time) * 1000))
    /\ events' = [events EXCEPT ![c] = Append(@, "complete_ok")]
    /\ ret' = [ret EXCEPT ![c] = Converted(call[c], body, now)]
    /\ _cache' = IF call[c].op = "get_klines"
                 THEN CacheSet(_cache,
                               CacheKey(call[c].symbol, call[c].limit,
                                        call[c].interval),
                               KlinesOf(body, call[c].limit), now)
                 ELSE _cache
    /\ upstream' = [upstream EXCEPT ![c] = Some(body)]
    /\ call' = [call EXCEPT ![c] = Finished(call[c])]
    /\ UNCHANGED <<now, retry_count, _client, pulls, streamVars>>

\* the status is good but response.json() raises: complete_fetch(success) has
\* been emitted, "except Exception" emits complete_fetch(failure) and re-raises
HttpBadBody(c) ==
    /\ call[c].pc = "http"
    /\ _status' = complete_fetch(
                     complete_fetch(_status, "binance", TRUE, None,
                                    Some((now - call[c].start_time) * 1000)),
                     "binance", FALSE, Some("JSONDecodeError"), None)
    /\ events' = [events EXCEPT ![c] = @ \o <<"complete_ok", "complete_fail">>]
    /\ ret' = [ret EXCEPT ![c] = Raise("JSONDecodeError")]
    /\ call' = [call EXCEPT ![c] = Finished(call[c])]
    /\ UNCHANGED <<now, retry_count, _client, _cache, pulls, upstream,
                   streamVars>>

\* mutant of HttpTimeout: the last attempt is retried once more
HttpTimeout_OneMore(c) ==
    /\ call[c].pc = "http"
    /\ IF call[c].attempt <= retry_count
       THEN /\ call' = [call EXCEPT ![c].pc = "sleep"]
            /\ UNCHANGED <<_status, events, ret>>
       ELSE /\ _status' = complete_fetch(_status, "binance", FALSE,
                                         Some("timeout"), None)
            /\ events' = [events EXCEPT ![c] = Append(@, "complete_fail")]
            /\ ret' = [ret EXCEPT ![c] = Raise("TimeoutException")]
            /\ call' = [call EXCEPT ![c] = Finished(call[c])]
    /\ UNCHANGED <<now, retry_count, _client, _cache, pulls, upstream,
                   streamVars>>

\* httpx.TimeoutException: sleep and retry while attempts remain, else fail
HttpTimeout(c) ==
    /\ call[c].pc = "http"
    /\ IF call[c].attempt < retry_count
       THEN /\ call' = [call EXCEPT ![c].pc = "sleep"]
            /\ UNCHANGED <<_status, events, ret>>
       ELSE /\ _status' = complete_fetch(_status, "binance", FALSE,
                                         Some("timeout"), None)
            /\ events' = [events EXCEPT ![c] = Append(@, "complete_fail")]
            /\ ret' = [ret EXCEPT ![c] = Raise("TimeoutException")]
            /\ call' = [call EXCEPT ![c] = Finished(call[c])]
    /\ UNCHANGED <<now, retry_count, _client, _cache, pulls, upstream,
                   streamVars>>

\* asyncio.sleep(1) is over: the next attempt of the for loop is sent
SleepDone(c) ==
    /\ call[c].pc = "sleep"
    /\ call' = [call EXCEPT ![c].pc = "http", ![c].attempt = @ + 1]
    /\ UNCHANGED <<now, retry_count, _client, _cache, _status, ret, pulls, events,
                   upstream, streamVars>>

\* mutant of HttpStatusError: the error is recorded and swallowed, the call
\* returns None
HttpStatusError_Swallowed(c) ==
    /\ call[c].pc = "http"
    /\ _status' = complete_fetch(_status, "binance", FALSE,
                                 Some("HTTP 500"), None)
    /\ events' = [events EXCEPT ![c] = Append(@, "complete_fail")]
    /\ ret' = [ret EXCEPT ![c] = Return(None, "rest")]
    /\ call' = [call EXCEPT ![c] = Finished(call[c])]
    /\ UNCHANGED <<now, retry_count, _client, _cache, pulls, upstream,
                   streamVars>>

\* raise_for_status() raises httpx.HTTPStatusError
HttpStatusError(c) ==
    /\ call[c].pc = "http"
    /\ _status' = complete_fetch(_status, "binance", FALSE,
                                 Some("HTTP 500"), None)
    /\ events' = [events EXCEPT ![c] = Append(@, "complete_fail")]
    /\ ret' = [ret EXCEPT ![c] = Raise("HTTPStatusError")]
    /\ call' = [call EXCEPT ![c] = Finished(call[c])]
    /\ UNCHANGED <<now, retry_count, _client, _cache, pulls, upstream,
                   streamVars>>

\* mutant of HttpError: a transport error is retried like a timeout
HttpError_Retried(c) == HttpTimeout(c)

\* any other exception of client.get (transport error)
HttpError(c) ==
    /\ call[c].pc = "http"
    /\ _status' = complete_fetch(_status, "binance", FALSE,
                                 Some("ConnectError"), None)
    /\ events' = [events EXCEPT ![c] = Append(@, "complete_fail")]
    /\ ret' = [ret EXCEPT ![c] = Raise("ConnectError")]
    /\ call' = [call EXCEPT ![c] = Finished(call[c])]
    /\ UNCHANGED <<now, retry_count, _client, _cache, pulls, upstream,
                   streamVars>>

\* mutant of ServiceGetKlines: a symbol the stream has a price for is answered
\* from the stream table, with an empty series
ServiceGetKlines_StreamFirst(c, symbol, interval, limit) ==
    /\ call[c].pc = "idle"
    /\ IF symbol \in DOMAIN _prices
       THEN /\ ret' = [ret EXCEPT ![c] = Return(<< >>, "-")]
            /\ pulls' = [pulls EXCEPT ![c] = 0]
            /\ events' = [events EXCEPT ![c] = << >>]
            /\ upstream' = [upstream EXCEPT ![c] = None]
            /\ call' = [call EXCEPT ![c] =
                           [IdleCall EXCEPT !.op = "get_klines",
                                            !.symbol = symbol,
                                            !.interval = interval,
                                            !.limit = limit]]
            /\ UNCHANGED <<_client, _status, _cache>>
       ELSE /\ _cache' = CacheAfterGet(_cache,
                                       CacheKey(symbol, limit, interval),
                                       interval, now)
            /\ RequestStart(c, "get_klines", symbol, interval, limit,
                            limit + 1)
    /\ UNCHANGED <<now, retry_count, streamVars>>

\* BinanceService.get_klines -> BinanceRestClient.get_klines, up to its return
\* (cache hit) or its first await (cache miss)
ServiceGetKlines(c, symbol, interval, limit) ==
    LET key == CacheKey(symbol, limit, interval)
    IN  /\ call[c].pc = "idle"
        /\ IF CacheHit(_cache, key, interval, now)
           THEN /\ ret' = [ret EXCEPT ![c] = Return(_cache[key].data, "-")]
                /\ pulls' = [pulls EXCEPT ![c] = 0]
                /\ events' = [events EXCEPT ![c] = << >>]
                /\ upstream' = [upstream EXCEPT ![c] = None]
                /\ _cache' = CacheAfterGet(_cache, key, interval, now)
                /\ call' = [call EXCEPT ![c] =
                               [IdleCall EXCEPT !.op = "get_klines",
                                                !.symbol = symbol,
                                                !.interval = interval,
                                                !.limit = limit]]
                /\ UNCHANGED <<_client, _status>>
           ELSE /\ _cache' = CacheAfterGet(_cache, key, interval, now)
                /\ RequestStart(c, "get_klines", symbol, interval, limit,
                                limit + 1)
        /\ UNCHANGED <<now, retry_count, streamVars>>

----------------------------------------------------------------------------
(* BinanceWebSocketClient: the inbound text frames *)

\* a frame that decodes to a JSON object; s = "" stands for an object without
\* "s", and "abc" for a field float() cannot parse.  The fields P, h, l, v, q
\* are numeric in every frame of the model.
TickerMsg(s, c, p) ==
    [kind |-> "object", s |-> s, c |-> c, p |-> p, P |-> "1", h |-> "2",
     l |-> "1", v |-> "1", q |-> "2"]
\* text that is not JSON, and JSON that is not an object (a list)
NotJson == [TickerMsg("", "1", "1") EXCEPT !.kind = "not_json"]
NotObject == [TickerMsg("", "1", "1") EXCEPT !.kind = "not_object"]

Messages ==
    {TickerMsg(s, c, p) : s \in Symbols, c \in {"1", "2", "abc"}, p \in {"1", "abc"}}
        \cup {TickerMsg("", "1", "1"), NotJson, NotObject}

\* _handle_ticker_message reaches and completes the assignment to _prices
PriceIngested(m) == m.kind = "object" /\ m.s # "" /\ FloatOk(m.c)

\* ... and the assignment to _tickers
TickerIngested(m) ==
    /\ PriceIngested(m)
    /\ \A x \in {m.p, m.P, m.c, m.h, m.l, m.v, m.q} : FloatOk(x)

\* _handle_ticker_message raises: AttributeError on a non-object (no .get),
\* ValueError on a field float() cannot parse
HandleRaises(m) ==
    \/ m.kind = "not_object"
    \/ m.kind = "object" /\ m.s # "" /\ ~TickerIngested(m)

\* mutant of HandlePrices: a symbol's first price is never replaced
HandlePrices_FirstWins(prices, m, t) ==
    IF PriceIngested(m) /\ m.s \notin DOMAIN prices
    THEN [x \in DOMAIN prices \cup {m.s} |->
            IF x = m.s THEN CryptoPrice(m.s, Float(m.c), t) ELSE prices[x]]
    ELSE prices

\* _prices after _handle_ticker_message(m)
HandlePrices(prices, m, t) ==
    IF PriceIngested(m)
    THEN [x \in DOMAIN prices \cup {m.s} |->
            IF x = m.s THEN CryptoPrice(m.s, Float(m.c), t) ELSE prices[x]]
    ELSE prices

\* _tickers after _handle_ticker_message(m)
HandleTickers(tickers, m) ==
    IF TickerIngested(m)
    THEN [x \in DOMAIN tickers \cup {m.s} |->
            IF x = m.s
            THEN Ticker24h(m.s, Float(m.p), Float(m.P), Float(m.c), Float(m.h),
                           Float(m.l), Float(m.v), Float(m.q))
            ELSE tickers[x]]
    ELSE tickers

----------------------------------------------------------------------------
(* BinanceWebSocketClient._connect, one asyncio task per start().  A task  *)
(* is suspended at: "created" (not yet run), "connecting"                  *)
(* (websockets.connect), "recv" (async for), "exiting" (__aexit__ of the   *)
(* async with, closing the connection), "cancelling" (the same, with a     *)
(* CancelledError propagating), "sleeping" (asyncio.sleep(delay)).         *)
(* CancelledError is a BaseException: "except Exception" lets it through.  *)

\* the history counter: switched off, or counting from n
NotCounted == [on |-> FALSE, n |-> 0]
Counted(n) == [on |-> TRUE, n |-> n]
Failed(f) == IF f.on THEN Counted(Min(f.n + 1, MaxFails)) ELSE f
Cleared(f) == IF f.on THEN Counted(0) ELSE f

NoTask == [pc |-> "unborn", conn |-> "none", cancel |-> FALSE, delay |-> 0]

FinishedPcs == {"done", "cancelled"}
Alive(t) == task[t].pc \notin {"unborn", "done", "cancelled"}

\* "while self._running" evaluated by a task not holding a connection
LoopTest == IF _running THEN "connecting" ELSE "done"

\* after the try block: "if self._running: await asyncio.sleep(delay)", else
\* the while test fails at once
AfterTry == IF _running THEN "sleeping" ELSE "done"

\* mutant of SleepDelay: the delay grows with the consecutive failures
SleepDelay_Backoff(n) == BINANCE_WS_RECONNECT_DELAY * (n + 1)

\* "delay = settings.BINANCE_WS_RECONNECT_DELAY", the argument of
\* asyncio.sleep after the n-th consecutive failure
SleepDelay(n) == BINANCE_WS_RECONNECT_DELAY

\* the task after the try block, the connection cycle having failed or ended
Retrying(t) ==
    [task[t] EXCEPT !.pc = AfterTry, !.conn = "none",
                    !.delay = IF _running THEN SleepDelay(Failed(fails).n) ELSE 0]

\* the task runs for the first time
TaskRun(t) ==
    /\ task[t].pc = "created" /\ ~task[t].cancel
    /\ task' = [task EXCEPT ![t].pc = LoopTest]
    /\ UNCHANGED <<now, retry_count, pullVars, _running, _ws, _task, _prices,
                   _tickers, life, lastRec, fails>>

\* websockets.connect succeeds: self._ws = ws, the async for begins
TaskConnected(t) ==
    /\ task[t].pc = "connecting" /\ ~task[t].cancel
    /\ _ws' = t
    /\ task' = [task EXCEPT ![t].pc = "recv", ![t].conn = "open"]
    /\ fails' = Cleared(fails)
    /\ UNCHANGED <<now, retry_count, pullVars, _running, _task, _prices,
                   _tickers, life, lastRec>>

\* websockets.connect raises: logged, self._ws = None, then sleep or leave
TaskConnectFail(t) ==
    /\ task[t].pc = "connecting" /\ ~task[t].cancel
    /\ _ws' = 0
    /\ task' = [task EXCEPT ![t] = Retrying(t)]
    /\ fails' = Failed(fails)
    /\ UNCHANGED <<now, retry_count, pullVars, _running, _task, _prices,
                   _tickers, life, lastRec>>

\* one frame arrives: break when not running, else json.loads and
\* _handle_ticker_message; an exception of the handler leaves the async with
TaskRecv(t, m) ==
    /\ task[t].pc = "recv" /\ ~task[t].cancel
    /\ IF ~_running
       THEN /\ task' = [task EXCEPT ![t].pc = "exiting"]
            /\ UNCHANGED <<_prices, _tickers, lastRec>>
       ELSE IF m.kind = "not_json"
       THEN UNCHANGED <<task, _prices, _tickers, lastRec>>
       ELSE /\ _prices' = HandlePrices(_prices, m, now)
            /\ _tickers' = HandleTickers(_tickers, m)
            /\ lastRec' = IF PriceIngested(m)
                          THEN [x \in DOMAIN lastRec \cup {m.s} |->
                                  IF x = m.s THEN m.c ELSE lastRec[x]]
                          ELSE lastRec
            /\ task' = IF HandleRaises(m)
                       THEN [task EXCEPT ![t].pc = "exiting"]
                       ELSE task
    /\ UNCHANGED <<now, retry_count, pullVars, _running, _ws, _task, life,
                   fails>>

\* the connection ends (closed by the peer, by stop(), or broken): the async
\* for ends or raises ConnectionClosed
TaskConnLost(t) ==
    /\ task[t].pc = "recv" /\ ~task[t].cancel
    /\ task' = [task EXCEPT ![t].pc = "exiting", ![t].conn = "closing"]
    /\ UNCHANGED <<now, retry_count, pullVars, _running, _ws, _task, _prices,
                   _tickers, life, lastRec, fails>>

\* the async with is left: self._ws = None, then sleep or leave the loop
TaskExited(t) ==
    /\ task[t].pc = "exiting" /\ ~task[t].cancel
    /\ _ws' = 0
    /\ task' = [task EXCEPT ![t] = Retrying(t)]
    /\ fails' = Failed(fails)
    /\ UNCHANGED <<now, retry_count, pullVars, _running, _task, _prices,
                   _tickers, life, lastRec>>

\* asyncio.sleep(delay) is over: the while test
TaskWake(t) ==
    /\ task[t].pc = "sleeping" /\ ~task[t].cancel
    /\ task' = [task EXCEPT ![t].pc = LoopTest, ![t].delay = 0]
    /\ UNCHANGED <<now, retry_count, pullVars, _running, _ws, _task, _prices,
                   _tickers, life, lastRec, fails>>

\* task.cancel() takes effect: CancelledError is thrown into the task where it
\* is suspended; inside the async for it first passes through __aexit__
TaskCancelled(t) ==
    /\ task[t].cancel
    /\ task' = [task EXCEPT ![t] =
                   IF task[t].pc = "recv"
                   THEN [NoTask EXCEPT !.pc = "cancelling", !.conn = "closing"]
                   ELSE [NoTask EXCEPT !.pc = "cancelled"]]
    /\ UNCHANGED <<now, retry_count, pullVars, _running, _ws, _task, _prices,
                   _tickers, life, lastRec, fails>>

\* __aexit__ is over and the CancelledError leaves _connect
TaskCancelDone(t) ==
    /\ task[t].pc = "cancelling" /\ ~task[t].cancel
    /\ task' = [task EXCEPT ![t].pc = "cancelled", ![t].conn = "none"]
    /\ UNCHANGED <<now, retry_count, pullVars, _running, _ws, _task, _prices,
                   _tickers, life, lastRec, fails>>

----------------------------------------------------------------------------
(* start() and stop() of BinanceWebSocketClient, called through            *)
(* BinanceService.start() / stop()                                         *)

\* loop is history: the task self._task named when the stop() in progress was
\* invoked
IdleLife(last) == [pc |-> "idle", awaited |-> 0, loop |-> 0, last |-> last]

\* the id asyncio.create_task gives the next task
NewTask == CHOOSE t \in Tasks : task[t].pc = "unborn" /\
                \A u \in Tasks : task[u].pc = "unborn" => t <= u

\* mutant of Start: the "if self._running: return" guard is missing
Start_NoGuard(c) ==
    /\ life[c].pc = "idle"
    /\ \E t \in Tasks : task[t].pc = "unborn"
    /\ _running' = TRUE
    /\ _task' = NewTask
    /\ task' = [task EXCEPT ![NewTask].pc = "created"]
    /\ life' = [life EXCEPT ![c] =
                   IdleLife(IF _running THEN "start_noop" ELSE "started")]
    /\ fails' = Cleared(fails)
    /\ UNCHANGED <<now, retry_count, pullVars, _ws, _prices, _tickers, lastRec>>

\* start(): no await inside, so it is one step
Start(c) ==
    /\ life[c].pc = "idle"
    /\ IF _running
       THEN /\ life' = [life EXCEPT ![c] = IdleLife("start_noop")]
            /\ UNCHANGED <<_running, _task, task, fails>>
       ELSE /\ \E t \in Tasks : task[t].pc = "unborn"
            /\ _running' = TRUE
            /\ _task' = NewTask
            /\ task' = [task EXCEPT ![NewTask].pc = "created"]
            /\ life' = [life EXCEPT ![c] = IdleLife("started")]
            /\ fails' = Cleared(fails)
    /\ UNCHANGED <<now, retry_count, pullVars, _ws, _prices, _tickers, lastRec>>

\* BinanceRestClient.close
CloseClient(cl) == IF cl = "open" THEN "closed" ELSE cl

\* mutant of StopTaskPart: the task is cancelled but not awaited
StopTaskPart_NoAwait(c) ==
    /\ task' = IF _task # 0 /\ task[_task].pc \notin FinishedPcs
               THEN [task EXCEPT ![_task].cancel = TRUE]
               ELSE task
    /\ _task' = 0
    /\ _client' = CloseClient(_client)
    /\ life' = [life EXCEPT ![c] = IdleLife("stopped")]

\* mutant of StopTaskPart: without the "if self._task:" guard, awaiting None
\* raises TypeError out of stop()
StopTaskPart_NoTaskGuard(c) ==
    IF _task # 0 /\ task[_task].pc \notin FinishedPcs
    THEN /\ task' = [task EXCEPT ![_task].cancel = TRUE]
         /\ life' = [life EXCEPT ![c].pc = "stop_awaiting",
                                 ![c].awaited = _task,
                                 ![c].loop = IF life[c].pc = "idle"
                                             THEN _task ELSE @]
         /\ UNCHANGED <<_task, _client>>
    ELSE /\ life' = [life EXCEPT ![c] = IdleLife("stop_raised")]
         /\ UNCHANGED <<_task, _client, task>>

\* stop() from "if self._task:" on: cancel and await the task, or, with no
\* task left to wait for, self._task = None and rest_client.close()
StopTaskPart(c) ==
    IF _task # 0 /\ task[_task].pc \notin FinishedPcs
    THEN /\ task' = [task EXCEPT ![_task].cancel = TRUE]
         /\ life' = [life EXCEPT ![c].pc = "stop_awaiting",
                                 ![c].awaited = _task,
                                 ![c].loop = IF life[c].pc = "idle"
                                             THEN _task ELSE @]
         /\ UNCHANGED <<_task, _client>>
    ELSE /\ _task' = 0
         /\ _client' = CloseClient(_client)
         /\ life' = [life EXCEPT ![c] = IdleLife("stopped")]
         /\ UNCHANGED task

\* stop() up to its first await: self._running = False, then ws.close() is
\* started, or with no connection the task part follows at once
StopBegin(c) ==
    /\ life[c].pc = "idle"
    /\ _running' = FALSE
    /\ IF _ws # 0
       THEN /\ task' = [task EXCEPT ![_ws].conn =
                            IF @ = "open" THEN "closing" ELSE @]
            /\ life' = [life EXCEPT ![c].pc = "stop_closing",
                                    ![c].loop = _task]
            /\ UNCHANGED <<_task, _client>>
       ELSE StopTaskPart(c)
    /\ UNCHANGED <<now, retry_count, _cache, _status, call, ret, pulls, events,
                   upstream, _ws, _prices, _tickers, lastRec,
                   fails>>

\* ws.close() has returned: self._ws = None, then the task part
StopClosed(c) ==
    /\ life[c].pc = "stop_closing"
    /\ _ws' = 0
    /\ StopTaskPart(c)
    /\ UNCHANGED <<now, retry_count, _cache, _status, call, ret, pulls, events,
                   upstream, _running, _prices, _tickers, lastRec,
                   fails>>

\* "await self._ws.close()" raises (the connection breaks while the close
\* frame is sent, or the caller of stop() is cancelled there): the exception
\* leaves ws_client.stop() and BinanceService.stop(), rest_client.close() is
\* not reached
StopCloseRaises(c) ==
    /\ life[c].pc = "stop_closing"
    /\ life' = [life EXCEPT ![c] = IdleLife("stop_raised")]
    /\ UNCHANGED <<now, retry_count, pullVars, _running, _ws, _task, _prices,
                   _tickers, task, lastRec, fails>>

\* "await self._task" is over: self._task = None, rest_client.close()
StopAwaited(c) ==
    /\ life[c].pc = "stop_awaiting"
    /\ task[life[c].awaited].pc \in FinishedPcs
    /\ _task' = 0
    /\ _client' = CloseClient(_client)
    /\ life' = [life EXCEPT ![c] = IdleLife("stopped")]
    /\ UNCHANGED <<now, retry_count, _cache, _status, call, ret, pulls, events,
                   upstream, _running, _ws, _prices, _tickers, task, lastRec,
                   fails>>

----------------------------------------------------------------------------
(* BinanceService.get_price / get_24h_ticker *)

\* the call returned without a request
Answered(c, op, symbol, val, tag) ==
    /\ ret' = [ret EXCEPT ![c] = Return(val, tag)]
    /\ pulls' = [pulls EXCEPT ![c] = 0]
    /\ events' = [events EXCEPT ![c] = << >>]
    /\ upstream' = [upstream EXCEPT ![c] = None]
    /\ call' = [call EXCEPT ![c] = [IdleCall EXCEPT !.op = op, !.symbol = symbol]]
    /\ UNCHANGED <<_client, _status>>

\* mutants of ServiceGetPrice: the REST API is asked even when the stream
\* holds a price / a stream miss is returned as it is, without the fallback
ServiceGetPrice_RestFirst(c, symbol) ==
    /\ call[c].pc = "idle"
    /\ RequestStart(c, "get_price", symbol, "-", 0, 0)
    /\ UNCHANGED <<now, retry_count, _cache, streamVars>>

ServiceGetPrice_NoFallback(c, symbol) ==
    /\ call[c].pc = "idle"
    /\ IF symbol \in DOMAIN _prices
       THEN Answered(c, "get_price", symbol, _prices[symbol], "websocket")
       ELSE Answered(c, "get_price", symbol, None, "websocket")
    /\ UNCHANGED <<now, retry_count, _cache, streamVars>>

ServiceGetPrice(c, symbol) ==
    /\ call[c].pc = "idle"
    /\ IF symbol \in DOMAIN _prices
       THEN Answered(c, "get_price", symbol, _prices[symbol], "websocket")
       ELSE RequestStart(c, "get_price", symbol, "-", 0, 0)
    /\ UNCHANGED <<now, retry_count, _cache, streamVars>>

ServiceGet24hTicker(c, symbol) ==
    /\ call[c].pc = "idle"
    /\ IF symbol \in DOMAIN _tickers
       THEN Answered(c, "get_24h_ticker", symbol, _tickers[symbol], "websocket")
       ELSE RequestStart(c, "get_24h_ticker", symbol, "-", 0, 0)
    /\ UNCHANGED <<now, retry_count, _cache, streamVars>>

\* time passes
TickSteps == {30, 31}
Tick(d) ==
    /\ now + d <= MaxTime
    /\ now' = now + d
    /\ UNCHANGED <<retry_count, pullVars, streamVars>>

\* time passes, in the steps of the cache specification
CacheTickSteps == {449, 450, 451}
CacheTick(d) ==
    /\ now + d <= CacheMaxTime
    /\ now' = now + d
    /\ UNCHANGED <<retry_count, pullVars, streamVars>>

----------------------------------------------------------------------------

\* the service as BinanceService() constructs it
Constructed ==
    /\ now = StartTime
    /\ _client = "none"
    /\ _cache = << >>
    /\ _status = << >>
    /\ call = [c \in Callers |-> IdleCall]
    /\ ret = [c \in Callers |-> NoRet]
    /\ pulls = [c \in Callers |-> 0]
    /\ events = [c \in Callers |-> << >>]
    /\ upstream = [c \in Callers |-> None]
    /\ _running = FALSE
    /\ _ws = 0
    /\ _task = 0
    /\ _prices = << >>
    /\ _tickers = << >>
    /\ task = [t \in Tasks |-> NoTask]
    /\ life = [c \in LifeCallers \cup Racers |-> IdleLife("none")]
    /\ lastRec = << >>

Init ==
    /\ Constructed
    /\ retry_count = BINANCE_REST_RETRY_COUNT
    /\ fails = NotCounted

\* the same, with any retry budget from 0 to MaxRetry configured
InitRetry ==
    /\ Constructed
    /\ retry_count \in 0..MaxRetry
    /\ fails = NotCounted

\* the same, with the consecutive connection failures counted
InitReconnect ==
    /\ Constructed
    /\ retry_count = BINANCE_REST_RETRY_COUNT
    /\ fails = Counted(0)

\* the kline path: one caller issuing get_klines calls one after another,
\* their requests, the clock
KlineCallers == {1}
NextKline ==
    \/ \E d \in TickSteps : Tick(d)
    \/ \E c \in KlineCallers, s \in {"BTCUSDT"}, i \in Intervals, l \in Limits :
          ServiceGetKlines(c, s, i, l)
    \/ \E c \in Callers : \E body \in Bodies(call[c], now) : HttpOk(c, body)
    \/ \E c \in Callers : HttpBadBody(c)
    \/ \E c \in Callers : HttpTimeout(c)
    \/ \E c \in Callers : SleepDone(c)
    \/ \E c \in Callers : HttpStatusError(c)
    \/ \E c \in Callers : HttpError(c)

SpecKline == Init /\ [][NextKline]_vars

\* the receive loop of the stream client
TaskStep ==
    \/ \E t \in Tasks : TaskRun(t)
    \/ \E t \in Tasks : TaskConnected(t)
    \/ \E t \in Tasks : TaskConnectFail(t)
    \/ \E t \in Tasks : \E m \in Messages : TaskRecv(t, m)
    \/ \E t \in Tasks : TaskConnLost(t)
    \/ \E t \in Tasks : TaskExited(t)
    \/ \E t \in Tasks : TaskWake(t)
    \/ \E t \in Tasks : TaskCancelled(t)
    \/ \E t \in Tasks : TaskCancelDone(t)

\* the lifecycle path: the receive loop, with start() and stop() called one
\* after another (no lifecycle call begins while another is in progress)
NoLifecycleCall == \A c \in LifeCallers : life[c].pc = "idle"

NextSeq ==
    \/ \E c \in LifeCallers : NoLifecycleCall /\ Start(c)
    \/ \E c \in LifeCallers : NoLifecycleCall /\ StopBegin(c)
    \/ \E c \in LifeCallers : StopClosed(c)
    \/ \E c \in LifeCallers : StopAwaited(c)
    \/ TaskStep

SpecSeq == Init /\ [][NextSeq]_vars

\* the same path with the failures counted; the event loop lets a timer that
\* has expired, and the closing of a connection, complete
SpecReconnect ==
    /\ InitReconnect
    /\ [][NextSeq]_vars
    /\ \A t \in Tasks : WF_vars(TaskWake(t)) /\ WF_vars(TaskExited(t))

\* the quote path: a service that its owner starts once and stops, its
\* receive loop, and one caller issuing get_price / get_24h_ticker calls
PriceCallers == {1}
Owner == {1}

NextQuote ==
    \/ \E c \in Owner : NoLifecycleCall /\ task[1].pc = "unborn" /\ Start(c)
    \/ \E c \in Owner : NoLifecycleCall /\ StopBegin(c)
    \/ \E c \in Owner : StopClosed(c)
    \/ \E c \in Owner : StopAwaited(c)
    \/ TaskStep
    \/ \E c \in PriceCallers, s \in Symbols : ServiceGetPrice(c, s)
    \/ \E c \in PriceCallers, s \in Symbols : ServiceGet24hTicker(c, s)
    \/ \E c \in Callers : \E body \in Bodies(call[c], now) : HttpOk(c, body)
    \/ \E c \in Callers : HttpBadBody(c)
    \/ \E c \in Callers : HttpTimeout(c)
    \/ \E c \in Callers : SleepDone(c)
    \/ \E c \in Callers : HttpStatusError(c)
    \/ \E c \in Callers : HttpError(c)

SpecQuote == Init /\ [][NextQuote]_vars

\* the shutdown path: a service started once and stopped any number of
\* times, its receive loop, and one caller filling the kline cache
NextStop ==
    \/ \E c \in Owner : NoLifecycleCall /\ task[1].pc = "unborn" /\ Start(c)
    \/ \E c \in Owner : NoLifecycleCall /\ StopBegin(c)
    \/ \E c \in Owner : StopClosed(c)
    \/ \E c \in Owner : StopAwaited(c)
    \/ TaskStep
    \/ \E c \in KlineCallers : ServiceGetKlines(c, "BTCUSDT", "1m", 1)
    \/ \E c \in Callers : \E body \in Bodies(call[c], now) : HttpOk(c, body)
    \/ \E c \in Callers : HttpError(c)

SpecStop == Init /\ [][NextStop]_vars

\* every operation of the service: the shutdown path and a caller of
\* get_price and get_24h_ticker
NextFrame ==
    \/ NextStop
    \/ \E c \in PriceCallers, s \in Symbols : ServiceGetPrice(c, s)
    \/ \E c \in PriceCallers, s \in Symbols : ServiceGet24hTicker(c, s)

SpecFrame == Init /\ [][NextFrame]_vars

\* the lifecycle path with overlapping calls: any caller may invoke start()
\* or stop() while a stop() of another caller is suspended at an await
NextRace ==
    \/ \E c \in Racers : Start(c)
    \/ \E c \in Racers : StopBegin(c)
    \/ \E c \in Racers : StopClosed(c)
    \/ \E c \in Racers : StopAwaited(c)
    \/ TaskStep

SpecRace == Init /\ [][NextRace]_vars

\* concurrent get_klines calls: every caller asks for the same series
NextConcurrent ==
    \/ \E d \in TickSteps : Tick(d)
    \/ \E c \in Callers : ServiceGetKlines(c, "BTCUSDT", "1m", 1)
    \/ \E c \in Callers : \E body \in Bodies(call[c], now) : HttpOk(c, body)
    \/ \E c \in Callers : HttpError(c)

SpecConcurrent == Init /\ [][NextConcurrent]_vars

\* the fetch-status manager under direct calls for two sources
NextStatus ==
    \/ \E src \in Sources, d \in Descriptions : StatusStart(src, d)
    \/ \E src \in Sources, ok \in BOOLEAN, err \in ErrorTexts,
          el \in ElapsedTimes : StatusComplete(src, ok, err, el)
    \/ \E src \in Sources : StatusReset(src)

SpecStatus == Init /\ [][NextStatus]_vars

\* the same path where closing the connection may also raise
NextShutdown ==
    \/ NextStop
    \/ \E c \in Owner : StopCloseRaises(c)

SpecShutdown == Init /\ [][NextShutdown]_vars

\* the pull path: one caller of a service that was never started, so that
\* every get_price and get_24h_ticker goes to the REST client
NextRetry ==
    \/ \E c \in PriceCallers, s \in Symbols : ServiceGetPrice(c, s)
    \/ \E c \in PriceCallers, s \in Symbols : ServiceGet24hTicker(c, s)
    \/ \E c \in KlineCallers : ServiceGetKlines(c, "BTCUSDT", "1m", 1)
    \/ \E c \in Callers : \E body \in Bodies(call[c], now) : HttpOk(c, body)
    \/ \E c \in Callers : HttpBadBody(c)
    \/ \E c \in Callers : HttpTimeout(c)
    \/ \E c \in Callers : SleepDone(c)
    \/ \E c \in Callers : HttpStatusError(c)
    \/ \E c \in Callers : HttpError(c)

SpecRetry == InitRetry /\ [][NextRetry]_vars

\* the cache path: one caller of get_klines for two intervals, one in the TTL
\* table and one that gets the default, while up to 902 seconds pass
CacheIntervals == {"30m", "1h"}
NextCache ==
    \/ \E d \in CacheTickSteps : CacheTick(d)
    \/ \E c \in KlineCallers, i \in CacheIntervals :
          ServiceGetKlines(c, "BTCUSDT", i, 1)
    \/ \E c \in Callers : \E body \in Bodies(call[c], now) : HttpOk(c, body)
    \/ \E c \in Callers : HttpError(c)

SpecCache == Init /\ [][NextCache]_vars

----------------------------------------------------------------------------
(* Properties of get_klines, checked under SpecKline *)

\* caller c's last call was get_klines and it returned a series
KlinesReturned(c) ==
    /\ call[c].op = "get_klines"
    /\ call[c].pc = "idle"
    /\ ret[c].kind = "return"

\* ... which it built from an upstream response (a cache miss)
FreshKlines(c) == KlinesReturned(c) /\ upstream[c] # None

Result(c) == ret[c].val[1]
Body(c) == upstream[c][1]

\* C1: on a cache miss get_klines asks upstream for limit + 1 rows; for
\* limit >= 1, when upstream answers with more than limit rows the result has
\* exactly limit candles, none of them the newest upstream row, and they are
\* the rows immediately before the newest one, in upstream order.
C1_DiscardNewest ==
    \A c \in Callers :
        /\ (call[c].op = "get_klines" /\ call[c].pc # "idle"
                => call[c].req_limit = call[c].limit + 1)
        /\ (FreshKlines(c) /\ call[c].limit >= 1
                           /\ Len(Body(c)) > call[c].limit
                => LET n == Len(Body(c))
                       l == call[c].limit
                   IN  /\ Len(Result(c)) = l
                       /\ \A j \in 1..l :
                            /\ Result(c)[j].open_time = Body(c)[n - 1 - l + j][1]
                            /\ Result(c)[j].close_time = Body(c)[n - 1 - l + j][7]
                            /\ Result(c)[j].open_time # Body(c)[n][1])

\* the unit test's case: 3 raw rows, limit = 2
C1_Witness ==
    \E c \in Callers :
        FreshKlines(c) /\ call[c].limit = 2 /\ Len(Body(c)) = 3

\* C2: no candle of a returned series (fresh or cached) closes after the
\* time at which the series is handed to the caller.
C2_NoOpenCandle ==
    \A c \in Callers :
        KlinesReturned(c)
            => \A j \in 1..Len(Result(c)) : Result(c)[j].close_time <= now

\* C3: a returned series (fresh or cached) has strictly increasing open_time.
C3_StrictlyIncreasing ==
    \A c \in Callers :
        KlinesReturned(c)
            => \A j \in 1..(Len(Result(c)) - 1) :
                  Result(c)[j].open_time < Result(c)[j + 1].open_time

\* a cache hit that returns two candles
C3_Witness ==
    \E c \in Callers :
        KlinesReturned(c) /\ upstream[c] = None /\ Len(Result(c)) = 2

\* C4: a returned series never has more than limit elements.
C4_AtMostLimit ==
    \A c \in Callers :
        KlinesReturned(c) => Len(Result(c)) <= call[c].limit

\* C5: when upstream answers with limit rows or fewer, every row is
\* converted and returned, in upstream order.
C5_FewRowsUnmodified ==
    \A c \in Callers :
        FreshKlines(c) /\ Len(Body(c)) <= call[c].limit
            => /\ Len(Result(c)) = Len(Body(c))
               /\ \A j \in 1..Len(Body(c)) :
                    /\ Result(c)[j].open_time = Body(c)[j][1]
                    /\ Result(c)[j].close_time = Body(c)[j][7]
                    /\ Result(c)[j].open = Float(Body(c)[j][2])
                    /\ Result(c)[j].close = Float(Body(c)[j][5])

\* the unit test's case: 2 raw rows, limit = 2
C5_Witness ==
    \E c \in Callers :
        FreshKlines(c) /\ call[c].limit = 2 /\ Len(Body(c)) = 2

----------------------------------------------------------------------------
(* Properties of get_price / get_24h_ticker, checked under SpecQuote *)

\* C6: when the stream client holds a price (a ticker) for the symbol,
\* get_price (get_24h_ticker) returns exactly that stored value tagged
\* "websocket" and makes no PullClient request.
C6_StreamHit ==
    [][\A c \in PriceCallers, s \in Symbols :
          /\ (ServiceGetPrice(c, s) /\ s \in DOMAIN _prices
                => /\ ret'[c].kind = "return"
                   /\ ret'[c].val = <<_prices[s]>>
                   /\ ret'[c].tag = "websocket"
                   /\ pulls'[c] = 0 /\ events'[c] = << >>
                   /\ call'[c].pc = "idle"
                   /\ UNCHANGED <<_status, _client>>)
          /\ (ServiceGet24hTicker(c, s) /\ s \in DOMAIN _tickers
                => /\ ret'[c].kind = "return"
                   /\ ret'[c].val = <<_tickers[s]>>
                   /\ ret'[c].tag = "websocket"
                   /\ pulls'[c] = 0 /\ events'[c] = << >>
                   /\ call'[c].pc = "idle"
                   /\ UNCHANGED <<_status, _client>>)]_vars

\* get_price answered from the stream table while the REST client was never
\* used
C6_Witness ==
    \E c \in PriceCallers :
        /\ call[c].op = "get_price" /\ call[c].pc = "idle"
        /\ ret[c].kind = "return" /\ ret[c].tag = "websocket"
        /\ call[c].symbol \in DOMAIN _prices
        /\ ret[c].val = <<_prices[call[c].symbol]>>
        /\ _client = "none"

\* C7: when the stream client has no entry for the symbol, get_price
\* (get_24h_ticker) invokes the PullClient call once, and when that call
\* succeeds returns its result tagged "rest"; no call invokes it twice.
C7_Fallback ==
    /\ [](\A c \in PriceCallers : pulls[c] <= 1)
    /\ [][\A c \in PriceCallers, s \in Symbols :
             /\ (ServiceGetPrice(c, s) /\ s \notin DOMAIN _prices
                   => /\ pulls'[c] = 1
                      /\ call'[c].op = "get_price" /\ call'[c].symbol = s
                      /\ call'[c].pc = "http")
             /\ (ServiceGet24hTicker(c, s) /\ s \notin DOMAIN _tickers
                   => /\ pulls'[c] = 1
                      /\ call'[c].op = "get_24h_ticker" /\ call'[c].symbol = s
                      /\ call'[c].pc = "http")
             /\ (call[c].op = "get_price" /\ call[c].symbol = s
                    /\ call[c].pc = "http" /\ call'[c].pc = "idle"
                    /\ ret'[c].kind = "return"
                   => /\ ret'[c].tag = "rest"
                      /\ ret'[c].val[1].symbol = s
                      /\ ret'[c].val[1].price = Float(upstream'[c][1].price)
                      /\ pulls'[c] = 1)
             /\ (call[c].op = "get_24h_ticker" /\ call[c].symbol = s
                    /\ call[c].pc = "http" /\ call'[c].pc = "idle"
                    /\ ret'[c].kind = "return"
                   => /\ ret'[c].tag = "rest"
                      /\ ret'[c].val[1].symbol = s
                      /\ ret'[c].val[1].last_price
                            = Float(upstream'[c][1].lastPrice)
                      /\ pulls'[c] = 1)]_vars

\* a get_price that missed the stream table and returned the REST answer
C7_Witness ==
    \E c \in PriceCallers :
        /\ call[c].op = "get_price" /\ call[c].pc = "idle"
        /\ ret[c].kind = "return" /\ ret[c].tag = "rest"
        /\ pulls[c] = 1
        /\ call[c].symbol \notin DOMAIN _prices

\* C8: once a record for a symbol has been ingested, the stream table holds
\* the price of the last record ingested for it and get_price returns that
\* price tagged "websocket" -- until the next record for the symbol, and
\* (more than the claim asks) also after stop().
C8_LastWriteWins ==
    /\ [](\A s \in DOMAIN lastRec :
             s \in DOMAIN _prices /\ _prices[s].price = Float(lastRec[s]))
    /\ [][\A c \in PriceCallers, s \in Symbols :
             ServiceGetPrice(c, s) /\ s \in DOMAIN lastRec
                => /\ ret'[c].kind = "return"
                   /\ ret'[c].tag = "websocket"
                   /\ ret'[c].val[1].symbol = s
                   /\ ret'[c].val[1].price = Float(lastRec[s])]_vars

\* get_price returned the price of a record that replaced an earlier one: the
\* ticker table still holds the earlier record's price
C8_Witness ==
    \E c \in PriceCallers :
        /\ call[c].op = "get_price" /\ call[c].pc = "idle"
        /\ ret[c].kind = "return" /\ ret[c].tag = "websocket"
        /\ call[c].symbol \in DOMAIN lastRec
        /\ ret[c].val[1].price = Float(lastRec[call[c].symbol])
        /\ call[c].symbol \in DOMAIN _tickers
        /\ _tickers[call[c].symbol].last_price # ret[c].val[1].price

----------------------------------------------------------------------------
(* Properties of start() / stop(), checked under SpecSeq *)

\* C9: with lifecycle calls made one after another, once stop() has
\* returned no receive-loop task is alive, and until the next start() no step
\* writes to the price and ticker tables.
C9_StopWaits ==
    /\ [](NoLifecycleCall /\ ~_running => \A t \in Tasks : ~Alive(t))
    /\ [][NoLifecycleCall /\ ~_running => UNCHANGED <<_prices, _tickers>>]_vars

\* stop() has returned after cancelling a receive loop that had ingested
\* records
C9_Witness ==
    \E c \in LifeCallers :
        /\ life[c].pc = "idle" /\ life[c].last = "stopped"
        /\ \E t \in Tasks : task[t].pc = "cancelled"
        /\ DOMAIN _prices # {}

\* C10: start() on a running client creates no task and leaves the tasks,
\* the connection and the tables as they are; start() on a stopped client
\* returns with the new task created but not yet run, so without waiting for
\* the connection.
C10_StartIdempotent ==
    [][\A c \in LifeCallers :
          Start(c)
            => /\ life'[c].pc = "idle"
               /\ (_running
                     => UNCHANGED <<_running, task, _task, _ws, _prices, _tickers>>)
               /\ (~_running
                     => /\ task'[_task'].pc = "created"
                        /\ \A t \in Tasks \ {_task'} : task'[t] = task[t]
                        /\ UNCHANGED <<_ws, _prices, _tickers>>)]_vars

\* start() was called while the receive loop was connected and reading
C10_Witness ==
    \E c \in LifeCallers :
        /\ life[c].last = "start_noop"
        /\ _running
        /\ \E t \in Tasks : task[t].pc = "recv" /\ _task = t /\ _ws = t

----------------------------------------------------------------------------
(* Properties of stop(), checked under SpecStop *)

\* nothing is running: the service was never started, or its last stop() has
\* returned
Stopped == NoLifecycleCall /\ ~_running

\* C11: stop() called while nothing is running returns at once without an
\* error, leaves the running flag false, the task and the connection absent,
\* and changes neither the price and ticker tables nor the kline cache nor any
\* task.
C11_StopNoOp ==
    /\ [](Stopped => _task = 0 /\ _ws = 0)
    /\ [][\A c \in Owner :
             StopBegin(c) /\ Stopped
                => /\ life'[c] = IdleLife("stopped")
                   /\ ~_running' /\ _task' = 0 /\ _ws' = 0
                   /\ UNCHANGED <<_prices, _tickers, _cache, task>>]_vars

\* stop() has returned on a service that was never started and whose kline
\* cache is filled
C11_Witness ==
    \E c \in Owner :
        /\ life[c] = IdleLife("stopped") /\ Stopped
        /\ \A t \in Tasks : task[t].pc = "unborn"
        /\ DOMAIN _cache # {}

----------------------------------------------------------------------------
(* Properties of the reconnect loop, checked under SpecReconnect *)

\* C12: while the client is running, a failed connection attempt and the end
\* of a connection both put the loop to sleep for BINANCE_WS_RECONNECT_DELAY,
\* whatever the number of consecutive failures; when the sleep is over the
\* loop connects again, and it does eventually; the loop ends only when
\* stop() has cleared the running flag.
C12_FixedDelayReconnect ==
    /\ [](\A t \in Tasks :
             task[t].pc = "sleeping"
                => task[t].delay = BINANCE_WS_RECONNECT_DELAY)
    /\ [][\A t \in Tasks :
             /\ (_running /\ (TaskConnectFail(t) \/ TaskExited(t))
                   => /\ task'[t].pc = "sleeping"
                      /\ task'[t].delay = BINANCE_WS_RECONNECT_DELAY)
             /\ (_running /\ TaskWake(t) => task'[t].pc = "connecting")
             /\ (task[t].pc \notin FinishedPcs /\ task'[t].pc \in FinishedPcs
                   => ~_running)]_vars
    /\ \A t \in Tasks :
          (_running /\ task[t].pc \in {"exiting", "sleeping"})
              ~> (task[t].pc = "connecting" \/ ~_running)

\* the loop sleeps the configured delay after MaxFails consecutive failures
C12_Witness ==
    \E t \in Tasks :
        /\ _running /\ task[t].pc = "sleeping"
        /\ fails = Counted(MaxFails)
        /\ task[t].delay = BINANCE_WS_RECONNECT_DELAY

----------------------------------------------------------------------------
(* Properties of the stream during a disconnect and on malformed records,  *)
(* checked under SpecQuote                                                  *)

\* the client is running and its loop holds no connection: it sleeps before
\* the next attempt or is attempting to connect
Disconnected ==
    /\ _running /\ _ws = 0 /\ _task # 0
    /\ task[_task].pc \in {"sleeping", "connecting"}

\* C13: a get_price call made while the stream is disconnected goes to the
\* PullClient and does not answer "websocket", for every symbol.
C13_GapFallsBack ==
    [][\A c \in PriceCallers, s \in Symbols :
          ServiceGetPrice(c, s) /\ Disconnected
             => /\ pulls'[c] = 1
                /\ call'[c].pc = "http"
                /\ ret'[c].tag # "websocket"]_vars

\* the frame is malformed: not JSON, not an object, an object without a
\* symbol, or an object with a numeric field float() cannot parse
Malformed(m) ==
    \/ m.kind # "object"
    \/ m.s = ""
    \/ \E x \in {m.p, m.P, m.c, m.h, m.l, m.v, m.q} : ~FloatOk(x)

\* C14: receiving a malformed frame changes neither the price table nor the
\* ticker table.
C14_MalformedDropped ==
    [][\A t \in Tasks, m \in Messages :
          TaskRecv(t, m) /\ _running /\ Malformed(m)
             => UNCHANGED <<_prices, _tickers>>]_vars

\* C15: after a malformed frame the loop is still reading from the same
\* connection.
C15_MalformedKeepsConnection ==
    [][\A t \in Tasks, m \in Messages :
          TaskRecv(t, m) /\ _running /\ Malformed(m)
             => /\ task'[t].pc = "recv" /\ task'[t].conn = task[t].conn
                /\ _ws' = _ws]_vars

----------------------------------------------------------------------------
(* Properties of BinanceRestClient._request, checked under SpecRetry.  The  *)
(* attempts of a call are numbered from 0: call[c].attempt + 1 attempts     *)
(* have been sent.                                                          *)

\* C16: no call sends more than retry_count + 1 attempts; a timeout is
\* retried exactly while fewer than retry_count retries were made, and is
\* raised to the caller on attempt retry_count + 1, so that a call raising
\* the timeout has sent exactly retry_count + 1 attempts; an attempt that
\* succeeds ends the call with its response and no further attempt.
C16_BoundedRetry ==
    /\ [](\A c \in Callers :
             /\ call[c].attempt <= retry_count
             /\ (call[c].pc = "idle" /\ ret[c] = Raise("TimeoutException")
                   => call[c].attempt = retry_count))
    /\ [][\A c \in Callers :
             /\ (HttpTimeout(c) /\ call[c].attempt < retry_count
                   => call'[c].pc = "sleep" /\ ret'[c] = NoRet)
             /\ (HttpTimeout(c) /\ call[c].attempt = retry_count
                   => call'[c].pc = "idle"
                        /\ ret'[c] = Raise("TimeoutException"))
             /\ (SleepDone(c)
                   => call'[c].pc = "http"
                        /\ call'[c].attempt = call[c].attempt + 1)
             /\ ((\E body \in Bodies(call[c], now) : HttpOk(c, body))
                   => call'[c].pc = "idle" /\ ret'[c].kind = "return"
                        /\ call'[c].attempt = call[c].attempt)]_vars

\* with the configured budget every attempt timed out and the third one
\* raised
C16_Witness ==
    \E c \in Callers :
        /\ retry_count = BINANCE_REST_RETRY_COUNT
        /\ call[c].pc = "idle" /\ ret[c] = Raise("TimeoutException")
        /\ call[c].attempt = 2

\* C17: an HTTP status error or a transport error ends the call at once: it
\* is raised to the caller on the attempt it occurs on, and no attempt
\* follows.
C17_NoRetryOnError ==
    [][\A c \in Callers :
          HttpStatusError(c) \/ HttpError(c)
             => /\ call'[c].pc = "idle"
                /\ call'[c].attempt = call[c].attempt
                /\ ret'[c].kind = "raise"
                /\ ret'[c].val[1] \in {"HTTPStatusError", "ConnectError"}]_vars

\* a transport error on the attempt that followed a timeout was raised
\* although the budget allowed another retry
C17_Witness ==
    \E c \in Callers :
        /\ call[c].pc = "idle" /\ ret[c] = Raise("ConnectError")
        /\ call[c].attempt = 1 /\ retry_count = 2

\* C18: a call that went to the REST API has emitted start_fetch first and a
\* complete_fetch last, and the completion recorded carries an elapsed time.
C18_EventsWithElapsed ==
    \A c \in PriceCallers :
        call[c].pc = "idle" /\ pulls[c] = 1
           => /\ Len(events[c]) >= 2
              /\ events[c][1] = "start_fetch"
              /\ events[c][Len(events[c])] \in {"complete_ok", "complete_fail"}
              /\ _status["binance"].elapsed_ms # None

----------------------------------------------------------------------------
(* Properties of KlineCache, checked under SpecCache *)

\* C19: a get_klines call that finds an entry for its key stored less than
\* the interval's TTL ago (900 s for "1h") returns the stored series, makes
\* no request and leaves the cache as it is; one that finds an entry stored
\* more than the TTL ago deletes it and makes one request, and the answer to
\* a request is stored under the key with the time of its arrival.
C19_FreshnessWindow ==
    /\ [](Ttl("1h") = 900 /\ \A c \in Callers : pulls[c] <= 1)
    /\ [][\A c \in KlineCallers, i \in CacheIntervals, l \in Limits :
             LET key == CacheKey("BTCUSDT", l, i)
             IN  ServiceGetKlines(c, "BTCUSDT", i, l) /\ key \in DOMAIN _cache
                    => /\ (now < _cache[key].timestamp + Ttl(i)
                             => /\ ret'[c] = Return(_cache[key].data, "-")
                                /\ pulls'[c] = 0 /\ call'[c].pc = "idle"
                                /\ UNCHANGED <<_cache, _status>>)
                       /\ (now > _cache[key].timestamp + Ttl(i)
                             => /\ key \notin DOMAIN _cache'
                                /\ pulls'[c] = 1 /\ call'[c].pc = "http")]_vars
    /\ [][\A c \in Callers :
             call[c].op = "get_klines"
                /\ (\E body \in Bodies(call[c], now) : HttpOk(c, body))
                => LET key == CacheKey(call[c].symbol, call[c].limit,
                                       call[c].interval)
                   IN  /\ key \in DOMAIN _cache'
                       /\ _cache'[key].timestamp = now
                       /\ _cache'[key].data = ret'[c].val[1]]_vars

\* a "1h" series was served from the cache 899 seconds after it was stored
C19_Witness ==
    \E c \in KlineCallers :
        LET key == CacheKey(call[c].symbol, call[c].limit, call[c].interval)
        IN  /\ KlinesReturned(c) /\ call[c].interval = "1h"
            /\ pulls[c] = 0
            /\ key \in DOMAIN _cache
            /\ ret[c].val[1] = _cache[key].data
            /\ now = _cache[key].timestamp + 899

\* C20: the TTL of the interval of a get_klines call is at least the TTL of
\* every finer interval and at most the TTL of every coarser one.
C20_TtlMonotone ==
    \A c \in Callers :
        call[c].op = "get_klines"
           => \A g \in AllIntervals :
                 /\ (Finer(g, call[c].interval)
                        => Ttl(g) <= Ttl(call[c].interval))
                 /\ (Finer(call[c].interval, g)
                        => Ttl(call[c].interval) <= Ttl(g))

----------------------------------------------------------------------------
(* get_klines and the stream client, checked under SpecStop *)

\* C21: what get_klines returns and requests is determined by the cache, the
\* clock, its arguments and the upstream answer, whatever the state of the
\* stream client: a hit returns the stored series without a request, a miss
\* makes one request for limit + 1 rows and returns the series built from
\* the answer; no step of the call changes the state of the stream client.
C21_StreamIgnored ==
    [][\A c \in KlineCallers, i \in Intervals, l \in Limits :
          LET key == CacheKey("BTCUSDT", l, i)
          IN  /\ (ServiceGetKlines(c, "BTCUSDT", i, l)
                    => /\ UNCHANGED streamVars
                       /\ IF CacheHit(_cache, key, i, now)
                          THEN /\ ret'[c] = Return(_cache[key].data, "-")
                               /\ pulls'[c] = 0 /\ call'[c].pc = "idle"
                          ELSE /\ pulls'[c] = 1 /\ call'[c].pc = "http"
                               /\ call'[c].symbol = "BTCUSDT"
                               /\ call'[c].interval = i
                               /\ call'[c].req_limit = l + 1)
              /\ (call[c].op = "get_klines"
                     /\ (\E body \in Bodies(call[c], now) : HttpOk(c, body))
                    => /\ UNCHANGED streamVars
                       /\ ret'[c] = Return(KlinesOf(upstream'[c][1],
                                                    call[c].limit), "-"))]_vars

\* get_klines fetched a series from upstream while the stream client was
\* connected and held a price for the symbol
C21_Witness ==
    \E c \in KlineCallers :
        /\ FreshKlines(c) /\ pulls[c] = 1
        /\ _running /\ _ws # 0
        /\ call[c].symbol \in DOMAIN _prices

----------------------------------------------------------------------------
(* Error propagation, checked under SpecRetry *)

\* C22: when the request of a get_price, get_24h_ticker or get_klines call
\* fails (a timeout on the last attempt, an HTTP status error, a transport
\* error), the call ends by raising that error: it returns no value, makes
\* no further request, and leaves the kline cache and the stream client as
\* they are, so that no entry is stored under the key of a failed get_klines.
C22_ErrorsPropagate ==
    /\ [](\A c \in Callers :
             call[c].pc = "idle" /\ ret[c].kind = "raise"
                => /\ pulls[c] = 1
                   /\ (call[c].op = "get_klines"
                         => CacheKey(call[c].symbol, call[c].limit,
                                     call[c].interval) \notin DOMAIN _cache))
    /\ [][\A c \in Callers :
             /\ (HttpTimeout(c) /\ call[c].attempt = retry_count
                   => ret'[c] = Raise("TimeoutException"))
             /\ (HttpStatusError(c) => ret'[c] = Raise("HTTPStatusError"))
             /\ (HttpError(c) => ret'[c] = Raise("ConnectError"))
             /\ (\/ HttpTimeout(c) /\ call[c].attempt = retry_count
                 \/ HttpStatusError(c)
                 \/ HttpError(c)
                   => /\ call'[c].pc = "idle"
                      /\ pulls'[c] = pulls[c]
                      /\ UNCHANGED <<_cache, streamVars>>)]_vars

\* a get_klines call raised the timeout of its last attempt and a get_price
\* would still miss the stream table
C22_Witness ==
    \E c \in Callers :
        /\ call[c].op = "get_klines" /\ call[c].pc = "idle"
        /\ ret[c] = Raise("TimeoutException")
        /\ DOMAIN _cache = {} /\ DOMAIN _prices = {}

----------------------------------------------------------------------------
(* The REST client at shutdown, checked under SpecShutdown *)

\* a BinanceService.stop() call by c returns or raises in this step
StopFinishes(c) ==
    /\ StopBegin(c) \/ StopClosed(c) \/ StopAwaited(c) \/ StopCloseRaises(c)
    /\ life'[c].pc = "idle"

\* C23: when a stop() call finishes, by returning or by raising, the HTTP
\* client of the REST client is closed if it was ever created.
C23_ClientClosedAfterStop ==
    [][\A c \in Owner :
          StopFinishes(c) => _client' \in {"none", "closed"}]_vars

----------------------------------------------------------------------------
(* Properties of FetchStatusManager, checked under SpecStatus *)

\* the statuses of the sources other than src are what they were
OthersKept(src) ==
    \A o \in Sources \ {src} : get_status(_status', o) = get_status(_status, o)

\* C24: every source is idle at creation; start_fetch makes the source
\* fetching with the description given, complete_fetch makes it success or
\* error according to the flag, with the error text given, reset makes it
\* idle, each whatever the status was before; and a call for one source
\* leaves the status of every other source as it was.  The status of a
\* source is therefore that of its latest event.
C24_StatusMachine ==
    /\ [](\A src \in Sources :
             src \notin DOMAIN _status
                => get_status(_status, src).status = "idle")
    /\ [][\A src \in Sources :
             /\ \A d \in Descriptions :
                   StatusStart(src, d)
                      => /\ get_status(_status', src).status = "fetching"
                         /\ get_status(_status', src).description = Some(d)
                         /\ OthersKept(src)
             /\ \A ok \in BOOLEAN, err \in ErrorTexts, el \in ElapsedTimes :
                   StatusComplete(src, ok, err, el)
                      => /\ get_status(_status', src).status
                              = IF ok THEN "success" ELSE "error"
                         /\ get_status(_status', src).error = err
                         /\ OthersKept(src)
             /\ (StatusReset(src)
                   => /\ get_status(_status', src).status = "idle"
                      /\ OthersKept(src))]_vars

\* one source failed with an error text while the other is fetching
C24_Witness ==
    /\ get_status(_status, "binance").status = "error"
    /\ get_status(_status, "binance").error = Some("timeout")
    /\ get_status(_status, "finnhub").status = "fetching"
    /\ get_status(_status, "finnhub").description = Some("news")

----------------------------------------------------------------------------
(* Writers of the price and ticker tables, checked under SpecFrame *)

\* the entries of symbol x in both tables are what they were
EntriesKept(x) ==
    /\ (x \in DOMAIN _prices') = (x \in DOMAIN _prices)
    /\ (x \in DOMAIN _prices => _prices'[x] = _prices[x])
    /\ (x \in DOMAIN _tickers') = (x \in DOMAIN _tickers)
    /\ (x \in DOMAIN _tickers => _tickers'[x] = _tickers[x])

\* C25: a step that changes the price table or the ticker table is the
\* receive loop handling a frame that names a symbol, and it changes only
\* that symbol's entries; start, stop, get_price, get_24h_ticker and their
\* REST answers, and get_klines leave both tables as they are.
C25_SingleWriter ==
    [][<<_prices, _tickers>>' # <<_prices, _tickers>>
          => \E t \in Tasks, m \in Messages :
                /\ TaskRecv(t, m)
                /\ m.kind = "object" /\ m.s # ""
                /\ \A x \in Symbols \ {m.s} : EntriesKept(x)]_vars

\* get_price returned a price pulled from the REST API; the table holds
\* another symbol but not this one
C25_Witness ==
    \E c \in PriceCallers :
        /\ call[c].op = "get_price" /\ call[c].pc = "idle"
        /\ ret[c].kind = "return" /\ ret[c].tag = "rest"
        /\ call[c].symbol \notin DOMAIN _prices
        /\ DOMAIN _prices # {}

----------------------------------------------------------------------------
(* Concurrent get_klines calls, checked under SpecConcurrent *)

\* caller c has a kline request in flight
Fetching(c) == call[c].op = "get_klines" /\ call[c].pc \in {"http", "sleep"}

\* C26: no two get_klines calls have a request in flight for the same
\* (symbol, limit, interval) at the same time.
C26_OneFetchPerKey ==
    \A c1, c2 \in Callers :
        c1 # c2 /\ Fetching(c1) /\ Fetching(c2)
           => CacheKey(call[c1].symbol, call[c1].limit, call[c1].interval)
                 # CacheKey(call[c2].symbol, call[c2].limit, call[c2].interval)

----------------------------------------------------------------------------
(* Overlapping start() and stop() calls, checked under SpecRace *)

\* the task self._task named when the stop() call of c was invoked
InvokedLoop(c) == IF life[c].pc = "idle" THEN _task ELSE life[c].loop

\* a stop() call by c returns in this step
StopReturns(c) ==
    /\ StopBegin(c) \/ StopClosed(c) \/ StopAwaited(c)
    /\ life'[c].pc = "idle"

\* C27: whenever a stop() call returns, the receive loop that was running
\* when it was invoked has terminated (a terminated task takes no further
\* step, so it neither writes nor reconnects afterwards), also when start()
\* was invoked while the stop() was suspended closing the connection.
C27_LoopEndedAtReturn ==
    [][\A c \in Racers :
          StopReturns(c) /\ InvokedLoop(c) # 0
             => task'[InvokedLoop(c)].pc \in FinishedPcs]_vars

\* C28: at most one receive-loop task is alive in every reachable state.
C28_OneLoopAlive == Cardinality({t \in Tasks : Alive(t)}) <= 1

----------------------------------------------------------------------------
(* The two tables of the stream client, checked under SpecSeq *)

\* C29: in every reachable state the Quote table and the Stats24h table
\* hold the same symbols, and a symbol's Quote price equals its Stats24h last
\* price, for any sequence of inbound frames, well-formed or not.
C29_TablesConsistent ==
    /\ DOMAIN _prices = DOMAIN _tickers
    /\ \A s \in DOMAIN _prices : _prices[s].price = _tickers[s].last_price

----------------------------------------------------------------------------
(* The events of a request, checked under SpecRetry *)

\* the complete_fetch events among the events of caller c's request
Completions(c) ==
    SelectSeq(events[c], LAMBDA x : x \in {"complete_ok", "complete_fail"})

\* C30: a request that emitted start_fetch has emitted exactly one
\* complete_fetch when it returns or raises, and that event reports success
\* if and only if the request returned a response to its caller.
C30_OneCompletion ==
    \A c \in Callers :
        call[c].pc = "idle" /\ pulls[c] = 1
           => /\ Head(events[c]) = "start_fetch"
              /\ Len(Completions(c)) = 1
              /\ Completions(c)[1] = "complete_ok" <=> ret[c].kind = "return"

====
